---- MODULE Spec2Model ----
(***************************************************************************)
(* wlanThermoGrafanaBridge: MQTT telemetry of a WlanThermo device turned   *)
(* into InfluxDB points.  The model follows wlanThermoGrafanaBridge.py:    *)
(* the record builders, the timestamp conversion, the settings cache       *)
(* (GlobalScope.lastSettingsPoints) and the three MQTT callbacks.          *)
(*                                                                         *)
(* Python objects have identity.  A list or dict of the program is a value *)
(* together with an object id, so that "the same object" and "an equal     *)
(* object" are different things in the model as they are in the program.   *)
(***************************************************************************)
EXTENDS Integers, Sequences, FiniteSets, TLC

VARIABLES
    replicateSettings,   \* GlobalScope.replicateSettings (--replicateSettings)
    lastSettingsPoints,  \* GlobalScope.lastSettingsPoints: the list object held
    utcOffset,           \* UTC offset of the host's local timezone, in seconds
    now,                 \* the wall clock (UTC seconds) at the last reading
    handled,             \* number of MQTT messages delivered so far
    topic,               \* which callback the last message went to
    payload,             \* the last message's payload: [valid, json]
    points,              \* the list the record builder returned for it
    calls,               \* the addPointsToDatabase calls made for it, in order
    escaped,             \* an exception left a callback
    settingsBuilt,       \* records built for the last settings message that decoded
    phase,               \* where main() is: "start", "db", "loop" or "exit1"
    subscribed,          \* mqtt_on_connect has subscribed to the two topics
    failed,              \* the startup step that failed, "none" if none did
    again                \* the list of a second build from the same message

vars == <<replicateSettings, lastSettingsPoints, utcOffset, now, handled,
          topic, payload, points, calls, escaped, settingsBuilt,
          phase, subscribed, failed, again>>

----------------------------------------------------------------------------
(* Bounds of the model *)

MaxMsgs == 3        \* messages delivered in one run
MaxTicks == 1       \* seconds the wall clock advances in one run
MaxChannels == 2    \* channels in a message of the builder specification
MaxPm == 2          \* controllers in pitmaster.pm of such a message
NowBase == 1800000000   \* the wall clock when the process starts

(* Program constants *)

InternalTimeLimit == 631152000   \* 01.01.1990 00:00:00
InactiveTemp == 999              \* 999 means channel not active

HostOffsets == {0, 3600}

NowMax == NowBase + MaxTicks

\* The clock values a reading may return, t being the previous reading: the
\* clock does not run backwards.
ClockReads(t) == t..NowMax

----------------------------------------------------------------------------
(* Decoded JSON.  An object is a function from its keys to values, so a    *)
(* missing key is a key outside DOMAIN.  system.time is kept with its JSON *)
(* type, since int() accepts some values and raises on others.             *)

JInt(n) == [type |-> "int", num |-> n]
JStr(s) == [type |-> "str", str |-> s]

Has(obj, key) == key \in DOMAIN obj

\* int(x): an int is itself, a string is parsed as a decimal literal, and a
\* string that is no literal raises ValueError.
PyInt(x) ==
    IF x.type = "int" THEN [raised |-> FALSE, val |-> x.num]
    ELSE CASE x.str = "1700000000" -> [raised |-> FALSE, val |-> 1700000000]
           [] x.str = "1000"       -> [raised |-> FALSE, val |-> 1000]
           [] OTHER                -> [raised |-> TRUE, val |-> 0]

\* int(message['system']['time']): KeyError on a missing key, else int().
SystemTime(message) ==
    IF ~Has(message, "system") THEN [raised |-> TRUE, val |-> 0]
    ELSE IF ~Has(message["system"], "time") THEN [raised |-> TRUE, val |-> 0]
    ELSE PyInt(message["system"]["time"])

\* Object identities: the objects of the decoded message number msg, and the
\* lists and copies the program allocates while it handles that message.
ObjId(msg, obj, idx) == [msg |-> msg, obj |-> obj, idx |-> idx]

\* A list object: its identity and its items.
ListObj(id, recs) == [id |-> id, recs |-> recs]

----------------------------------------------------------------------------
(* getTimestampStr.  A naive datetime is its calendar fields, counted here *)
(* as the seconds from 1970-01-01 00:00:00 of the same calendar.           *)
(* utcnow() gives the UTC fields of the clock, fromtimestamp(t) the local  *)
(* fields of t; astimezone() on a naive datetime takes the fields as local *)
(* time and attaches the host's offset; isoformat() prints fields and      *)
(* offset.  The string is modelled by what it prints.                      *)

\* Mutant of getTimestampStr: the device time is converted with
\* utcfromtimestamp, which gives the UTC fields.
getTimestampStrUtcFields(unixTimestamp, clock, offset) ==
    LET timestamp == IF unixTimestamp < InternalTimeLimit
                     THEN clock
                     ELSE unixTimestamp
    IN  [wall |-> timestamp, offset |-> offset]

getTimestampStr(unixTimestamp, clock, offset) ==
    LET timestamp == IF unixTimestamp < InternalTimeLimit
                     THEN clock
                     ELSE unixTimestamp + offset
    IN  [wall |-> timestamp, offset |-> offset]

\* The instant (UTC seconds) an offset-aware ISO-8601 string denotes.
InstantOf(timestampStr) == timestampStr.wall - timestampStr.offset

----------------------------------------------------------------------------
(* The record builders.  Each appends to the list it is given; a builder   *)
(* that raises leaves in the list what it had appended before.             *)

createDataSystemPoints(pts, timestamp, message, msg) ==
    Append(pts, [measurement |-> "System",
                 time        |-> timestamp,
                 fields      |-> message["system"],
                 fieldsId    |-> ObjId(msg, "system", 0)])

\* Mutant of ChannelActive: the comparison includes the sentinel.
ChannelActiveInclusive(channel) == channel["temp"] <= InactiveTemp

ChannelActive(channel) == channel["temp"] < InactiveTemp

\* Mutant of ChannelItem: every channel gets a timestamp of its own, a second
\* after the one before.
ChannelItemOwnStamp(channel, timestamp, msg, i) ==
    [measurement |-> "Channel " \o ToString(channel["number"]),
     time        |-> [timestamp EXCEPT !.wall = @ + i],
     tags        |-> [channel |-> "Channel " \o ToString(channel["number"]),
                      alias   |-> channel["name"]],
     fields      |-> channel,
     fieldsId    |-> ObjId(msg, "channel", i)]

ChannelItem(channel, timestamp, msg, i) ==
    [measurement |-> "Channel " \o ToString(channel["number"]),
     time        |-> timestamp,
     tags        |-> [channel |-> "Channel " \o ToString(channel["number"]),
                      alias   |-> channel["name"]],
     fields      |-> channel,
     fieldsId    |-> ObjId(msg, "channel", i)]

RECURSIVE ChannelLoop(_, _, _, _, _)
ChannelLoop(pts, timestamp, channels, msg, i) ==
    IF i > Len(channels) THEN [points |-> pts, raised |-> FALSE]
    ELSE LET channel == channels[i] IN
         IF ~Has(channel, "temp") THEN [points |-> pts, raised |-> TRUE]
         ELSE IF ChannelActive(channel)
              THEN IF ~Has(channel, "number") \/ ~Has(channel, "name")
                   THEN [points |-> pts, raised |-> TRUE]
                   ELSE ChannelLoop(Append(pts, ChannelItem(channel, timestamp, msg, i)),
                                    timestamp, channels, msg, i + 1)
              ELSE ChannelLoop(pts, timestamp, channels, msg, i + 1)

createDataChannelPoints(pts, timestamp, message, msg) ==
    IF ~Has(message, "channel") THEN [points |-> pts, raised |-> TRUE]
    ELSE ChannelLoop(pts, timestamp, message["channel"], msg, 1)

RECURSIVE PitmasterLoop(_, _, _, _, _)
PitmasterLoop(pts, timestamp, pm, msg, i) ==
    IF i > Len(pm) THEN [points |-> pts, raised |-> FALSE]
    ELSE LET pmObject == pm[i] IN
         IF ~Has(pmObject, "id") THEN [points |-> pts, raised |-> TRUE]
         ELSE PitmasterLoop(
                Append(pts, [measurement |-> "Pitmaster " \o ToString(pmObject["id"]),
                             time        |-> timestamp,
                             fields      |-> pmObject,
                             fieldsId    |-> ObjId(msg, "pm", i)]),
                timestamp, pm, msg, i + 1)

createDataPitmasterPoints(pts, timestamp, message, msg) ==
    IF ~Has(message, "pitmaster") THEN [points |-> pts, raised |-> TRUE]
    ELSE IF ~Has(message["pitmaster"], "pm") THEN [points |-> pts, raised |-> TRUE]
    ELSE PitmasterLoop(pts, timestamp, message["pitmaster"]["pm"], msg, 1)

createSettingsSystemPoints(pts, timestamp, message, msg) ==
    Append(pts, [measurement |-> "System settings",
                 time        |-> timestamp,
                 fields      |-> message["system"],
                 fieldsId    |-> ObjId(msg, "system", 0)])

\* Mutant of createDataPoints: the pitmaster points are created before the
\* channel points.
createDataPointsPitmasterFirst(message, msg, clock, offset) ==
    LET t == SystemTime(message) IN
    IF t.raised THEN <<>>
    ELSE LET timestampStr == getTimestampStr(t.val, clock, offset)
             p1 == createDataSystemPoints(<<>>, timestampStr, message, msg)
             r2 == createDataPitmasterPoints(p1, timestampStr, message, msg)
             r3 == IF r2.raised THEN r2
                   ELSE createDataChannelPoints(r2.points, timestampStr, message, msg)
         IN  r3.points

\* createDataPoints: the try block ends at the first statement that raises,
\* and the function returns the list as it is then.
createDataPoints(message, msg, clock, offset) ==
    LET t == SystemTime(message) IN
    IF t.raised THEN <<>>
    ELSE LET timestampStr == getTimestampStr(t.val, clock, offset)
             p1 == createDataSystemPoints(<<>>, timestampStr, message, msg)
             r2 == createDataChannelPoints(p1, timestampStr, message, msg)
             r3 == IF r2.raised THEN r2
                   ELSE createDataPitmasterPoints(r2.points, timestampStr, message, msg)
         IN  r3.points

createSettingsPoints(message, msg, clock, offset) ==
    LET t == SystemTime(message) IN
    IF t.raised THEN <<>>
    ELSE createSettingsSystemPoints(<<>>, getTimestampStr(t.val, clock, offset),
                                    message, msg)

----------------------------------------------------------------------------
(* The settings replicator and the sink writer *)

\* copy.deepcopy of one point: an equal dict whose fields dict is a new object.
DeepCopyItem(item, msg, i) ==
    [item EXCEPT !.fieldsId = ObjId(msg, "replicated.fields", i)]

\* Mutant of prepareReplicatedPoints: no deepcopy, the points it was given
\* are re-stamped and returned.
prepareReplicatedPointsInPlace(pointsList, dataUnixTimestamp, msg, clock, offset) ==
    LET timestampStr == getTimestampStr(dataUnixTimestamp, clock, offset)
        stamped == ListObj(pointsList.id,
                           [i \in 1..Len(pointsList.recs) |->
                               [pointsList.recs[i] EXCEPT !.time = timestampStr]])
    IN  [newPoints |-> stamped, points |-> stamped]

\* prepareReplicatedPoints: the new list it returns, and the list it was given
\* as the call leaves it (it writes only to the copies).
prepareReplicatedPoints(pointsList, dataUnixTimestamp, msg, clock, offset) ==
    LET timestampStr == getTimestampStr(dataUnixTimestamp, clock, offset)
        newPoints == IF Len(pointsList.recs) > 0
                     THEN [i \in 1..Len(pointsList.recs) |->
                             [DeepCopyItem(pointsList.recs[i], msg, i)
                                EXCEPT !.time = timestampStr]]
                     ELSE <<>>
    IN  [newPoints |-> ListObj(ObjId(msg, "replicated", 0), newPoints),
         points    |-> pointsList]

\* Mutant of addPointsToDatabase: write_points is called for every list.
addPointsToDatabaseAlways(pointsList, writeOk) ==
    [list      |-> pointsList,
     submitted |-> TRUE,
     failed    |-> ~writeOk,
     raised    |-> FALSE]

\* Mutant of addPointsToDatabase: the exception of write_points is not caught.
addPointsToDatabaseRaises(pointsList, writeOk) ==
    LET submitted == Len(pointsList.recs) > 0 IN
    [list      |-> pointsList,
     submitted |-> submitted,
     failed    |-> submitted /\ ~writeOk,
     raised    |-> submitted /\ ~writeOk]

\* addPointsToDatabase: write_points is called for a non-empty list only; an
\* exception of write_points (writeOk false) is caught and logged.
addPointsToDatabase(pointsList, writeOk) ==
    LET submitted == Len(pointsList.recs) > 0 IN
    [list      |-> pointsList,
     submitted |-> submitted,
     failed    |-> submitted /\ ~writeOk,
     raised    |-> FALSE]

----------------------------------------------------------------------------
(* The MQTT callbacks.  Each gives the list the builder returned, the sink *)
(* calls made, the settings cache afterwards, and whether an exception     *)
(* left the callback.                                                      *)

NoList == ListObj(ObjId(0, "none", 0), <<>>)

\* Mutant of DataTry: the replication does not look at replicateSettings.
DataTryIgnoresFlag(message, msg, clock1, clock2, ok1, ok2) ==
    LET pts == ListObj(ObjId(msg, "points", 0),
                       createDataPoints(message, msg, clock1, utcOffset))
        c1  == addPointsToDatabase(pts, ok1)
        t   == SystemTime(message)
    IN  IF Len(lastSettingsPoints.recs) > 0 /\ ~t.raised
        THEN LET rep == prepareReplicatedPoints(lastSettingsPoints, t.val, msg,
                                                clock2, utcOffset)
             IN  [points |-> pts,
                  calls  |-> <<c1, addPointsToDatabase(rep.newPoints, ok2)>>,
                  cache  |-> rep.points, raised |-> FALSE]
        ELSE [points |-> pts, calls |-> <<c1>>, cache |-> lastSettingsPoints,
              raised |-> FALSE]

\* Mutant of DataTry: a system.time that cannot be read counts as 0 for the
\* replication.
DataTryDefaultsTime(message, msg, clock1, clock2, ok1, ok2) ==
    LET pts == ListObj(ObjId(msg, "points", 0),
                       createDataPoints(message, msg, clock1, utcOffset))
        c1  == addPointsToDatabase(pts, ok1)
        t   == SystemTime(message)
    IN  IF replicateSettings /\ Len(lastSettingsPoints.recs) > 0
        THEN LET rep == prepareReplicatedPoints(lastSettingsPoints, t.val, msg,
                                                clock2, utcOffset)
             IN  [points |-> pts,
                  calls  |-> <<c1, addPointsToDatabase(rep.newPoints, ok2)>>,
                  cache  |-> rep.points, raised |-> FALSE]
        ELSE [points |-> pts, calls |-> <<c1>>, cache |-> lastSettingsPoints,
              raised |-> FALSE]

\* The try block of on_wlanthermo_data (json.loads succeeded).
DataTry(message, msg, clock1, clock2, ok1, ok2) ==
    LET pts == ListObj(ObjId(msg, "points", 0),
                       createDataPoints(message, msg, clock1, utcOffset))
        c1  == addPointsToDatabase(pts, ok1)
    IN  IF c1.raised
        THEN [points |-> pts, calls |-> <<c1>>, cache |-> lastSettingsPoints,
              raised |-> TRUE]
        ELSE IF replicateSettings /\ Len(lastSettingsPoints.recs) > 0
        THEN LET t == SystemTime(message) IN
             IF t.raised
             THEN [points |-> pts, calls |-> <<c1>>, cache |-> lastSettingsPoints,
                   raised |-> TRUE]
             ELSE LET rep == prepareReplicatedPoints(lastSettingsPoints, t.val, msg,
                                                     clock2, utcOffset)
                      c2  == addPointsToDatabase(rep.newPoints, ok2)
                  IN  [points |-> pts, calls |-> <<c1, c2>>, cache |-> rep.points,
                       raised |-> c2.raised]
        ELSE [points |-> pts, calls |-> <<c1>>, cache |-> lastSettingsPoints,
              raised |-> FALSE]

\* Mutant of on_wlanthermo_data: json.loads is called outside the try block.
on_wlanthermo_data_Uncaught(p, msg, clock1, clock2, ok1, ok2) ==
    IF ~p.valid
    THEN [points |-> NoList, calls |-> <<>>, cache |-> lastSettingsPoints,
          escaped |-> TRUE]
    ELSE LET r == DataTry(p.json, msg, clock1, clock2, ok1, ok2) IN
         [points |-> r.points, calls |-> r.calls, cache |-> r.cache,
          escaped |-> FALSE]

\* on_wlanthermo_data: "except Exception" catches what json.loads and the try
\* block raise.
on_wlanthermo_data(p, msg, clock1, clock2, ok1, ok2) ==
    IF ~p.valid
    THEN [points |-> NoList, calls |-> <<>>, cache |-> lastSettingsPoints,
          escaped |-> FALSE]
    ELSE LET r == DataTry(p.json, msg, clock1, clock2, ok1, ok2) IN
         [points |-> r.points, calls |-> r.calls, cache |-> r.cache,
          escaped |-> FALSE]

\* Mutant of SettingsTry: the new points are added to the cached ones.
SettingsTryMerges(message, msg, clock1, ok1) ==
    LET pts == ListObj(ObjId(msg, "points", 0),
                       createSettingsPoints(message, msg, clock1, utcOffset))
        c1  == addPointsToDatabase(pts, ok1)
    IN  [points |-> pts, calls |-> <<c1>>,
         cache  |-> ListObj(lastSettingsPoints.id, lastSettingsPoints.recs \o pts.recs),
         raised |-> c1.raised]

\* Mutant of SettingsTry: an empty build leaves the cache as it was.
SettingsTryKeepsOnFailure(message, msg, clock1, ok1) ==
    LET pts == ListObj(ObjId(msg, "points", 0),
                       createSettingsPoints(message, msg, clock1, utcOffset))
        c1  == addPointsToDatabase(pts, ok1)
    IN  [points |-> pts, calls |-> <<c1>>,
         cache  |-> IF Len(pts.recs) > 0 THEN pts ELSE lastSettingsPoints,
         raised |-> c1.raised]

\* The try block of on_wlanthermo_settings (json.loads succeeded).
SettingsTry(message, msg, clock1, ok1) ==
    LET pts == ListObj(ObjId(msg, "points", 0),
                       createSettingsPoints(message, msg, clock1, utcOffset))
        c1  == addPointsToDatabase(pts, ok1)
    IN  [points |-> pts, calls |-> <<c1>>, cache |-> pts, raised |-> c1.raised]

\* Mutant of on_wlanthermo_settings: a payload that does not decode resets
\* the cache.
on_wlanthermo_settings_Resets(p, msg, clock1, ok1) ==
    IF ~p.valid
    THEN [points |-> NoList, calls |-> <<>>,
          cache |-> ListObj(lastSettingsPoints.id, <<>>), escaped |-> FALSE]
    ELSE LET r == SettingsTry(p.json, msg, clock1, ok1) IN
         [points |-> r.points, calls |-> r.calls, cache |-> r.cache,
          escaped |-> FALSE]

\* on_wlanthermo_settings: "except Exception" catches what json.loads and the
\* try block raise; the cache is assigned only after json.loads succeeded.
on_wlanthermo_settings(p, msg, clock1, ok1) ==
    IF ~p.valid
    THEN [points |-> NoList, calls |-> <<>>, cache |-> lastSettingsPoints,
          escaped |-> FALSE]
    ELSE LET r == SettingsTry(p.json, msg, clock1, ok1) IN
         [points |-> r.points, calls |-> r.calls, cache |-> r.cache,
          escaped |-> FALSE]

\* Mutant of mqtt_on_message: the default callback hands the message to the
\* settings callback.
mqtt_on_message_RunsSettings(p) ==
    on_wlanthermo_settings(p, handled + 1, now, TRUE)

\* mqtt_on_message: a message no topic callback matches is logged.
mqtt_on_message(p) ==
    [points |-> NoList, calls |-> <<>>, cache |-> lastSettingsPoints,
     escaped |-> FALSE]

----------------------------------------------------------------------------
(* Payloads *)

Restrict(f, keys) == [k \in keys |-> f[k]]

SeqsUpTo(S, n) == UNION {[1..k -> S] : k \in 0..n}

Payload(json) == [valid |-> TRUE, json |-> json]
InvalidPayload == [valid |-> FALSE, json |-> [raw |-> "{\"system\": "]]

\* system.time: the last second of device uptime, the first second taken as
\* wall-clock time, a decimal string and a string that is no number.
TimeValues == {JInt(InternalTimeLimit - 1), JInt(InternalTimeLimit),
               JStr("1700000000"), JStr("abc")}

SystemObjs == {[soc |-> 80]} \cup {[time |-> t, soc |-> 80] : t \in TimeValues}

GrillChannel == [number |-> 1, name |-> "Grill", temp |-> 25, typ |-> 0]
IdleChannel  == [number |-> 2, name |-> "Kerntemp", temp |-> 999, typ |-> 0]
Controller   == [id |-> 0, channel |-> 1, value |-> 50]

\* The data messages of the dispatcher specification: every system object or
\* none, with and without the channel section.
DataMessages ==
    {Restrict([system |-> s, channel |-> <<GrillChannel, IdleChannel>>,
               pitmaster |-> [type |-> "off", pm |-> <<Controller>>]], keys) :
       s \in SystemObjs,
       keys \in {{"system", "channel", "pitmaster"}, {"system", "pitmaster"},
                 {"channel", "pitmaster"}}}

SettingsMessages ==
    {[system |-> s, iot |-> "on"] : s \in SystemObjs} \cup {[iot |-> "on"]}

DataPayloads == {InvalidPayload} \cup {Payload(m) : m \in DataMessages}
SettingsPayloads == {InvalidPayload} \cup {Payload(m) : m \in SettingsMessages}
OtherPayloads == {InvalidPayload, Payload([iot |-> "on"])}

----------------------------------------------------------------------------
(* The dispatcher: one action per callback, each a whole callback *)

InitialPoints == ListObj(ObjId(0, "points", 0), <<>>)

\* The result codes of a CONNACK: accepted, and refused (not authorised).
ConnackCodes == {0, 5}

\* mqtt_on_connect: subscribes when rc is 0, logs an error otherwise.
mqtt_on_connect(rc) ==
    [subscribed |-> rc = 0, exits |-> FALSE]

\* The broker delivers messages of the subscribed topics to a client that
\* is in loop_forever.
InLoop == phase = "loop" /\ subscribed

Init ==
    /\ replicateSettings \in BOOLEAN
    /\ lastSettingsPoints = InitialPoints
    /\ utcOffset \in HostOffsets
    /\ now = NowBase
    /\ handled = 0
    /\ topic = "none"
    /\ payload = InvalidPayload
    /\ points = NoList
    /\ calls = <<>>
    /\ escaped = FALSE
    /\ settingsBuilt = <<>>
    /\ phase = "start"
    /\ subscribed = FALSE
    /\ failed = "none"
    /\ again = NoList

Deliver(t, p, r, clock) ==
    /\ topic' = t
    /\ payload' = p
    /\ points' = r.points
    /\ calls' = r.calls
    /\ lastSettingsPoints' = r.cache
    /\ escaped' = r.escaped
    /\ now' = clock
    /\ handled' = handled + 1
    /\ UNCHANGED <<replicateSettings, utcOffset, phase, subscribed, failed, again>>

\* The inputs a callback takes from its environment besides the payload: a
\* clock value where utcnow() is called (line 23), the outcome of write_points
\* where it is called (line 96).  Where the callback makes no such call there
\* is nothing to choose.
HasTime(p) == p.valid /\ ~SystemTime(p.json).raised
ReadsClock(p) == HasTime(p) /\ SystemTime(p.json).val < InternalTimeLimit
ClockInputs(p, t) == IF ReadsClock(p) THEN ClockReads(t) ELSE {t}
WriteInputs(p) == IF HasTime(p) THEN BOOLEAN ELSE {TRUE}
Replicates(p) == HasTime(p) /\ replicateSettings /\ Len(lastSettingsPoints.recs) > 0

OnData ==
    /\ InLoop
    /\ handled < MaxMsgs
    /\ ~escaped
    /\ \E p \in DataPayloads :
         \E clock1 \in ClockInputs(p, now), ok1 \in WriteInputs(p) :
            \E clock2 \in (IF Replicates(p) THEN ClockInputs(p, clock1) ELSE {clock1}),
               ok2 \in (IF Replicates(p) THEN BOOLEAN ELSE {TRUE}) :
                 \E r \in {on_wlanthermo_data(p, handled + 1, clock1, clock2, ok1, ok2)} :
                    /\ Deliver("data", p, r, clock2)
                    /\ UNCHANGED settingsBuilt

OnSettings ==
    /\ InLoop
    /\ handled < MaxMsgs
    /\ ~escaped
    /\ \E p \in SettingsPayloads :
         \E clock1 \in ClockInputs(p, now), ok1 \in WriteInputs(p) :
            \E r \in {on_wlanthermo_settings(p, handled + 1, clock1, ok1)} :
               /\ Deliver("settings", p, r, clock1)
               /\ settingsBuilt' = IF p.valid THEN r.points.recs ELSE settingsBuilt

OnOther ==
    /\ InLoop
    /\ handled < MaxMsgs
    /\ ~escaped
    /\ \E p \in OtherPayloads :
            /\ Deliver("other", p, mqtt_on_message(p), now)
            /\ UNCHANGED settingsBuilt

Startup(ph, sub, f) ==
    /\ phase' = ph
    /\ subscribed' = sub
    /\ failed' = f
    /\ UNCHANGED <<replicateSettings, lastSettingsPoints, utcOffset, now, handled,
                   topic, payload, points, calls, escaped, settingsBuilt, again>>

\* main, lines 225-233: create_database raises or not.
CreateDatabase ==
    /\ phase = "start"
    /\ \E ok \in BOOLEAN :
          IF ok THEN Startup("db", subscribed, failed)
                ELSE Startup("exit1", subscribed, "database")

\* main, lines 235-243: connect raises or not; then loop_forever.
Connect ==
    /\ phase = "db"
    /\ \E ok \in BOOLEAN :
          IF ok THEN Startup("loop", subscribed, failed)
                ELSE Startup("exit1", subscribed, "connect")

\* The broker answers a connection attempt, the first or, after a refusal,
\* the next one loop_forever makes.
OnConnect ==
    /\ phase = "loop"
    /\ ~subscribed
    /\ \E rc \in ConnackCodes :
          LET r == mqtt_on_connect(rc) IN
          Startup(IF r.exits THEN "exit1" ELSE phase,
                  r.subscribed,
                  IF rc = 0 THEN failed ELSE "connack")

Next == CreateDatabase \/ Connect \/ OnConnect \/ OnData \/ OnSettings \/ OnOther

Spec == Init /\ [][Next]_vars

----------------------------------------------------------------------------
(* The record builder alone: a decoded message is drawn, and one of the    *)
(* two builders is applied to it.                                          *)

ChannelObjs ==
    {[number |-> 1, name |-> "Grill", temp |-> 998, typ |-> 0],
     [number |-> 2, name |-> "Kerntemp", temp |-> 999, typ |-> 0],
     [number |-> 1, name |-> "Grill", temp |-> 1000, typ |-> 0],
     [number |-> 2, name |-> "Kerntemp", typ |-> 0],
     [number |-> 1, temp |-> 998, typ |-> 0],
     [name |-> "Grill", temp |-> 998, typ |-> 0],
     [temp |-> 999, typ |-> 0]}

ControllerObjs ==
    {[id |-> 0, channel |-> 1, value |-> 50],
     [id |-> 1, channel |-> 2, value |-> 0],
     [channel |-> 1, value |-> 50]}

PitmasterObjs ==
    {[type |-> "off"]} \cup
    {[type |-> "off", pm |-> pm] : pm \in SeqsUpTo(ControllerObjs, MaxPm)}

BuildMessages ==
    {Restrict([system |-> s, channel |-> c, pitmaster |-> pit], keys) :
       s \in SystemObjs, c \in SeqsUpTo(ChannelObjs, MaxChannels),
       pit \in PitmasterObjs, keys \in SUBSET {"system", "channel", "pitmaster"}}

InitBuild ==
    /\ replicateSettings = FALSE
    /\ lastSettingsPoints = InitialPoints
    /\ utcOffset \in HostOffsets
    /\ now = NowBase
    /\ handled = 0
    /\ topic = "none"
    /\ payload \in {Payload(m) : m \in BuildMessages}
    /\ points = NoList
    /\ calls = <<>>
    /\ escaped = FALSE
    /\ settingsBuilt = <<>>
    /\ phase = "loop"
    /\ subscribed = TRUE
    /\ failed = "none"
    /\ again = NoList

Built(t, recs, clock) ==
    /\ topic' = t
    /\ points' = ListObj(ObjId(1, "points", 0), recs)
    /\ now' = clock
    /\ handled' = 1
    /\ UNCHANGED <<replicateSettings, lastSettingsPoints, utcOffset, payload,
                   calls, escaped, settingsBuilt, phase, subscribed, failed,
                   again>>

BuildData ==
    /\ topic = "none"
    /\ \E clock \in ClockInputs(payload, now) :
         Built("data", createDataPoints(payload.json, 1, clock, utcOffset), clock)

BuildSettings ==
    /\ topic = "none"
    /\ \E clock \in ClockInputs(payload, now) :
         Built("settings", createSettingsPoints(payload.json, 1, clock, utcOffset), clock)

NextBuild == BuildData \/ BuildSettings

SpecBuild == InitBuild /\ [][NextBuild]_vars

----------------------------------------------------------------------------
(* The record builder applied twice: after a first build, the same builder *)
(* is called again, on the same decoded message (object 1) or on a second  *)
(* decoding of the same payload (object 2).                                *)

InitTwice ==
    /\ replicateSettings = FALSE
    /\ lastSettingsPoints = InitialPoints
    /\ utcOffset \in HostOffsets
    /\ now = NowBase
    /\ handled = 0
    /\ topic = "none"
    /\ payload \in {Payload(m) : m \in DataMessages \cup SettingsMessages}
    /\ points = NoList
    /\ calls = <<>>
    /\ escaped = FALSE
    /\ settingsBuilt = <<>>
    /\ phase = "loop"
    /\ subscribed = TRUE
    /\ failed = "none"
    /\ again = NoList

BuildAgain ==
    /\ topic \in {"data", "settings"}
    /\ again = NoList
    /\ \E msg \in {1, 2}, clock \in ClockInputs(payload, now) :
          /\ again' = ListObj(ObjId(msg, "points", 1),
                              IF topic = "data"
                              THEN createDataPoints(payload.json, msg, clock, utcOffset)
                              ELSE createSettingsPoints(payload.json, msg, clock, utcOffset))
          /\ now' = clock
    /\ UNCHANGED <<replicateSettings, lastSettingsPoints, utcOffset, handled,
                   topic, payload, points, calls, escaped, settingsBuilt,
                   phase, subscribed, failed>>

NextTwice == BuildData \/ BuildSettings \/ BuildAgain

SpecTwice == InitTwice /\ [][NextTwice]_vars

----------------------------------------------------------------------------
(* The timestamp conversion alone: a device time, a host offset and a      *)
(* clock are drawn, and createSettingsPoints stamps its one point with     *)
(* getTimestampStr(int(system.time)).                                      *)

StampTimes == {0, 1000, InternalTimeLimit - 1, InternalTimeLimit,
               InternalTimeLimit + 1, 1700000000, 1800000000, 2000000000}

StampOffsets == {0 - 18000, 0, 3600, 19800}

InitTime ==
    /\ replicateSettings = FALSE
    /\ lastSettingsPoints = InitialPoints
    /\ utcOffset \in StampOffsets
    /\ now \in NowBase..NowMax
    /\ handled = 0
    /\ topic = "none"
    /\ payload \in {Payload([system |-> [time |-> JInt(t), soc |-> 80], iot |-> "on"]) :
                       t \in StampTimes}
    /\ points = NoList
    /\ calls = <<>>
    /\ escaped = FALSE
    /\ settingsBuilt = <<>>
    /\ phase = "loop"
    /\ subscribed = TRUE
    /\ failed = "none"
    /\ again = NoList

NextTime == BuildSettings

SpecTime == InitTime /\ [][NextTime]_vars

----------------------------------------------------------------------------
(* Properties *)

\* A data message with every key the data builder reads: system with a time
\* int() accepts, channel with temp, number and name in every channel,
\* pitmaster.pm with an id in every controller.
WellFormedData(m) ==
    /\ ~SystemTime(m).raised
    /\ Has(m, "channel")
    /\ \A i \in 1..Len(m["channel"]) :
          {"temp", "number", "name"} \subseteq DOMAIN m["channel"][i]
    /\ Has(m, "pitmaster")
    /\ Has(m["pitmaster"], "pm")
    /\ \A i \in 1..Len(m["pitmaster"]["pm"]) : Has(m["pitmaster"]["pm"][i], "id")

\* A settings message with every key the settings builder reads.
WellFormedSettings(m) == ~SystemTime(m).raised

\* A point without its time, and without the identity of its fields object.
Untimed(item) == Restrict(item, DOMAIN item \ {"time", "fieldsId"})
UntimedAll(recs) == [i \in 1..Len(recs) |-> Untimed(recs[i])]

Times(recs) == {recs[i].time : i \in 1..Len(recs)}

\* A sink call without the outcome of write_points.
CallMade(c) == [list |-> c.list, submitted |-> c.submitted]
CallsMade(cs) == [i \in 1..Len(cs) |-> CallMade(cs[i])]

\* C1: a message in which an expected key is missing or of the wrong type
\* gives the empty list from createDataPoints / createSettingsPoints, never
\* some of the records.
C1_BuildIsAllOrNothing ==
    /\ (topic = "data" /\ ~WellFormedData(payload.json)) => points.recs = <<>>
    /\ (topic = "settings" /\ ~WellFormedSettings(payload.json)) => points.recs = <<>>

\* C2: a data message that decodes and builds is handed to the sink first;
\* a second batch, the replicated settings points, follows exactly when
\* replication is enabled and the cache is not empty; otherwise the data
\* batch is the only call.
C2_DataThenReplicated ==
    (topic = "data" /\ payload.valid /\ WellFormedData(payload.json)) =>
        /\ Len(calls) >= 1
        /\ calls[1].list = points
        /\ calls[1].submitted
        /\ IF replicateSettings /\ Len(lastSettingsPoints.recs) > 0
           THEN /\ Len(calls) = 2
                /\ calls[2].submitted
                /\ calls[2].list.id = ObjId(handled, "replicated", 0)
                /\ UntimedAll(calls[2].list.recs) = UntimedAll(lastSettingsPoints.recs)
           ELSE Len(calls) = 1

C2_Witness ==
    /\ topic = "data" /\ payload.valid /\ WellFormedData(payload.json)
    /\ replicateSettings
    /\ Len(calls) = 2
    /\ calls[1].submitted /\ calls[2].submitted
    /\ calls[2].list.recs[1].measurement = "System settings"

\* C3: every point of the replicated batch carries the time of the data
\* points written for the same message, whether system.time is device
\* uptime or wall-clock time.
C3_ReplicatedTimeIsDataTime ==
    (topic = "data" /\ Len(calls) = 2) =>
        \A t2 \in Times(calls[2].list.recs) :
            \A t1 \in Times(calls[1].list.recs) : t2 = t1

\* C4: the replicated batch has the measurements and fields of the points
\* built from the last settings message handled, with only the time changed.
C4_ReplicatesLastSettings ==
    (topic = "data" /\ Len(calls) = 2) =>
        /\ UntimedAll(calls[2].list.recs) = UntimedAll(settingsBuilt)
        /\ \A i \in 1..Len(settingsBuilt) :
              calls[2].list.recs[i].time =
                  getTimestampStr(SystemTime(payload.json).val, now, utcOffset)

C4_Witness ==
    /\ topic = "data" /\ Len(calls) = 2
    /\ handled = 3
    /\ lastSettingsPoints.id = ObjId(2, "points", 0)
    /\ calls[2].list.recs[1].time # settingsBuilt[1].time

\* C5: what the settings callback stores in the cache is a deep, independent
\* copy: neither the list the builder returned and the sink was handed, nor
\* a fields object of the decoded message.
C5_StoreIsIndependentCopy ==
    (topic = "settings" /\ payload.valid /\ Len(points.recs) > 0) =>
        /\ lastSettingsPoints.id # points.id
        /\ \A i \in 1..Len(calls) : calls[i].list.id # lastSettingsPoints.id
        /\ \A i \in 1..Len(lastSettingsPoints.recs) :
              lastSettingsPoints.recs[i].fieldsId # ObjId(handled, "system", 0)

\* C6: a settings message that decodes overwrites the cache with the list the
\* builder returned for it, the empty list included, and that list is handed
\* to the sink.
C6_SettingsOverwriteCache ==
    (topic = "settings" /\ payload.valid) =>
        /\ points.recs = createSettingsPoints(payload.json, handled, now, utcOffset)
        /\ lastSettingsPoints = points
        /\ Len(calls) = 1
        /\ calls[1].list = points

C6_Witness ==
    /\ topic = "settings" /\ payload.valid
    /\ handled >= 2
    /\ points.recs = <<>>
    /\ lastSettingsPoints = points
    /\ settingsBuilt = <<>>

\* C7: once the cache holds a non-empty list, it holds a non-empty list after
\* every later message.
C7_CacheNeverCleared ==
    [][Len(lastSettingsPoints.recs) > 0 => Len(lastSettingsPoints'.recs) > 0]_vars

\* C7 as amended: the cache is empty at startup and changes only when a
\* settings message decodes; once it holds a non-empty list it holds one after
\* every later message, except a settings message that decodes and fails to
\* build, which overwrites it with the empty list.
C7_CacheClearedOnlyByFailedBuild ==
    /\ Len(lastSettingsPoints.recs) = 0
    /\ [][/\ lastSettingsPoints' # lastSettingsPoints =>
                (topic' = "settings" /\ payload'.valid)
          /\ (Len(lastSettingsPoints.recs) > 0 /\ Len(lastSettingsPoints'.recs) = 0) =>
                (topic' = "settings" /\ payload'.valid
                    /\ ~WellFormedSettings(payload'.json))]_vars

C7_Witness ==
    /\ handled >= 2
    /\ topic = "settings" /\ ~payload.valid
    /\ Len(lastSettingsPoints.recs) > 0
    /\ lastSettingsPoints.id.msg < handled

\* C8: a payload that is no JSON, on the data or the settings topic, causes
\* no sink call, lets no exception out of the callback, and leaves the state
\* the later messages are handled from as it was.
C8_BadJsonIsDropped ==
    [][(handled' = handled + 1 /\ topic' \in {"data", "settings"} /\ ~payload'.valid) =>
          /\ calls' = <<>>
          /\ ~escaped'
          /\ lastSettingsPoints' = lastSettingsPoints
          /\ replicateSettings' = replicateSettings]_vars

C8_Witness ==
    /\ topic = "data" /\ ~payload.valid
    /\ handled >= 2
    /\ Len(lastSettingsPoints.recs) > 0
    /\ calls = <<>>
    /\ ~escaped

\* C9: a write_points that fails raises nothing out of the callback, is not
\* tried again, and changes neither the cache nor the calls that follow: the
\* callback does what it does when every write succeeds.
C9_FailedWriteIsIsolated ==
    [][(handled' = handled + 1 /\ \E i \in 1..Len(calls') : calls'[i].failed) =>
          /\ ~escaped'
          /\ \A i, j \in 1..Len(calls') :
                calls'[i].list.id = calls'[j].list.id => i = j
          /\ topic' = "data" =>
                /\ lastSettingsPoints' = lastSettingsPoints
                /\ \E c1 \in ClockReads(now) : \E c2 \in ClockReads(c1) :
                      LET r == on_wlanthermo_data(payload', handled', c1, c2, TRUE, TRUE)
                      IN  /\ CallsMade(r.calls) = CallsMade(calls')
                          /\ r.points = points'
                          /\ r.cache = lastSettingsPoints'
          /\ topic' = "settings" =>
                \E c1 \in ClockReads(now) :
                      LET r == on_wlanthermo_settings(payload', handled', c1, TRUE)
                      IN  /\ CallsMade(r.calls) = CallsMade(calls')
                          /\ r.points = points'
                          /\ r.cache = lastSettingsPoints']_vars

C9_Witness ==
    /\ topic = "data"
    /\ Len(calls) = 2
    /\ calls[1].failed
    /\ calls[2].submitted /\ ~calls[2].failed
    /\ ~escaped

\* C10: in a well-formed data message a channel with temp of 999 or more has
\* no point in the built list, and a channel with temp below 999 has exactly
\* one, with measurement "Channel {number}", tags channel and alias, and the
\* channel object as fields.
C10_InactiveChannelsOmitted ==
    (topic = "data" /\ WellFormedData(payload.json)) =>
        \A i \in 1..Len(payload.json["channel"]) :
            LET channel == payload.json["channel"][i]
                mine == {k \in 1..Len(points.recs) :
                            points.recs[k].fieldsId = ObjId(1, "channel", i)}
            IN  IF channel["temp"] >= 999
                THEN mine = {}
                ELSE /\ Cardinality(mine) = 1
                     /\ \A k \in mine :
                          /\ points.recs[k].measurement =
                                "Channel " \o ToString(channel["number"])
                          /\ points.recs[k].tags =
                                [channel |-> "Channel " \o ToString(channel["number"]),
                                 alias   |-> channel["name"]]
                          /\ points.recs[k].fields = channel

C10_Witness ==
    /\ topic = "data" /\ WellFormedData(payload.json)
    /\ Len(payload.json["channel"]) = 2
    /\ payload.json["channel"][1]["temp"] = 999
    /\ payload.json["channel"][2]["temp"] = 998
    /\ Len(points.recs) = 3
    /\ points.recs[2].measurement = "Channel 1"

\* The number of active channels among the first i channels.
ActiveUpTo(channels, i) ==
    Cardinality({j \in 1..i : channels[j]["temp"] < 999})

\* The list built from the well-formed data message m is one System point,
\* one Channel point per active channel in the channels' order, one Pitmaster
\* point per controller in the controllers' order, and nothing else.
DataListShape(m, recs) ==
    LET channels == m["channel"]
        pm       == m["pitmaster"]["pm"]
        nActive  == ActiveUpTo(channels, Len(channels))
    IN  /\ Len(recs) = 1 + nActive + Len(pm)
        /\ recs[1].measurement = "System"
        /\ recs[1].fields = m["system"]
        /\ recs[1].fieldsId = ObjId(1, "system", 0)
        /\ ~Has(recs[1], "tags")
        /\ \A i \in 1..Len(channels) :
              channels[i]["temp"] < 999 =>
                LET item == recs[1 + ActiveUpTo(channels, i)] IN
                /\ item.measurement = "Channel " \o ToString(channels[i]["number"])
                /\ item.fields = channels[i]
                /\ item.fieldsId = ObjId(1, "channel", i)
        /\ \A j \in 1..Len(pm) :
              LET item == recs[1 + nActive + j] IN
              /\ item.measurement = "Pitmaster " \o ToString(pm[j]["id"])
              /\ item.fields = pm[j]
              /\ item.fieldsId = ObjId(1, "pm", j)
              /\ ~Has(item, "tags")

\* C11: the list built from a well-formed data message is System, the active
\* channels in order, the controllers in order, with at least one Pitmaster
\* point, and has 1 + active channels + controllers points.
C11_DataListHasPitmaster ==
    (topic = "data" /\ WellFormedData(payload.json)) =>
        /\ DataListShape(payload.json, points.recs)
        /\ \E k \in 1..Len(points.recs) : points.recs[k].fieldsId.obj = "pm"

\* C11 as amended: the same list, with as many Pitmaster points as
\* pitmaster.pm has controllers, none when it has none.
C11_DataListInOrder ==
    (topic = "data" /\ WellFormedData(payload.json)) =>
        DataListShape(payload.json, points.recs)

C11_Witness ==
    /\ topic = "data" /\ WellFormedData(payload.json)
    /\ Len(payload.json["channel"]) = 2
    /\ payload.json["channel"][1]["temp"] = 1000
    /\ payload.json["channel"][2]["temp"] = 998
    /\ Len(payload.json["pitmaster"]["pm"]) = 2
    /\ Len(points.recs) = 4
    /\ points.recs[3].measurement = "Pitmaster 1"
    /\ points.recs[4].measurement = "Pitmaster 0"

\* C12: for a device time below 631152000 the timestamp denotes the instant
\* the message was received, whatever the host's UTC offset and whatever the
\* device time; 631152000 itself is taken as wall-clock device time.
C12_UptimeGivesReceiptInstant ==
    (topic = "settings" /\ HasTime(payload)) =>
        LET t == SystemTime(payload.json).val
            timestampStr == points.recs[1].time
        IN  /\ t < 631152000 => (InstantOf(timestampStr) = now
                                   /\ timestampStr.offset = utcOffset)
            /\ t = 631152000 => InstantOf(timestampStr) = 631152000

\* C13: for a device time of 631152000 or more the timestamp, read back as an
\* offset-aware time, is the instant of the device time, whatever the host's
\* UTC offset and the wall clock.
C13_DeviceTimeRoundTrips ==
    (topic = "settings" /\ HasTime(payload)
        /\ SystemTime(payload.json).val >= 631152000) =>
        /\ InstantOf(points.recs[1].time) = SystemTime(payload.json).val
        /\ points.recs[1].time.offset = utcOffset

C13_Witness ==
    /\ topic = "settings"
    /\ HasTime(payload)
    /\ SystemTime(payload.json).val = 631152000
    /\ utcOffset = 0 - 18000
    /\ now > NowBase
    /\ points.recs[1].time = [wall |-> 631152000 - 18000, offset |-> 0 - 18000]

\* C14: a startup step that fails (create_database raises, connect raises,
\* the broker refuses the connection) ends the process with a non-zero status
\* before any message; a message is handled only after the store setup and
\* the broker connection succeeded.
C14_StartupFailureIsFatal ==
    /\ failed # "none" => (phase = "exit1" /\ handled = 0)
    /\ handled > 0 => (phase = "loop" /\ subscribed)

\* C15: the records of a list handed to the sink, data, settings or
\* replicated, all carry one time, the one getTimestampStr gives for the
\* system.time of the message being handled.
C15_BatchSharesOneTime ==
    \A k \in 1..Len(calls) :
        /\ Cardinality(Times(calls[k].list.recs)) <= 1
        /\ Times(calls[k].list.recs) \subseteq
              {getTimestampStr(SystemTime(payload.json).val, clock, utcOffset) :
                  clock \in NowBase..now}

C15_Witness ==
    /\ topic = "data" /\ Len(calls) = 2
    /\ calls[1].submitted /\ calls[2].submitted
    /\ \E i, j \in 1..Len(calls[1].list.recs) :
          /\ calls[1].list.recs[i].fieldsId.obj = "channel"
          /\ calls[1].list.recs[j].fieldsId.obj = "pm"

\* The identities of the fields objects of the points of a list.
FieldsIds(recs) == {recs[i].fieldsId : i \in 1..Len(recs)}

\* C16: handling a data message leaves the settings cache as it was, times
\* included, whatever the flag, the build and the writes do; the replicated
\* list is a new list of new points, and the replicated lists of two data
\* messages in a row differ in time only and share no point with each other.
C16_DataLeavesCacheAlone ==
    [][(handled' = handled + 1 /\ topic' = "data") =>
          /\ lastSettingsPoints' = lastSettingsPoints
          /\ \A k \in 1..Len(calls') :
                /\ calls'[k].list.id # lastSettingsPoints.id
                /\ FieldsIds(calls'[k].list.recs)
                      \cap FieldsIds(lastSettingsPoints.recs) = {}
          /\ (topic = "data" /\ Len(calls) = 2 /\ Len(calls') = 2) =>
                /\ UntimedAll(calls'[2].list.recs) = UntimedAll(calls[2].list.recs)
                /\ calls'[2].list.id # calls[2].list.id
                /\ FieldsIds(calls'[2].list.recs)
                      \cap FieldsIds(calls[2].list.recs) = {}]_vars

C16_Witness ==
    /\ topic = "data" /\ handled = 3 /\ Len(calls) = 2
    /\ lastSettingsPoints.id = ObjId(1, "points", 0)
    /\ calls[1].failed /\ calls[2].submitted
    /\ calls[2].list.id = ObjId(3, "replicated", 0)
    /\ calls[2].list.recs[1].time # lastSettingsPoints.recs[1].time

\* C17: write_points is called for a list exactly when the list is not
\* empty, with the whole list; a settings message causes at most one call,
\* for the list the builder returned; a data message at most two, for the
\* data list and then for the replicated list; any other message none.
C17_NoEmptyBatchAndBoundedCalls ==
    /\ \A k \in 1..Len(calls) :
          calls[k].submitted <=> Len(calls[k].list.recs) > 0
    /\ topic = "settings" =>
          /\ Len(calls) <= 1
          /\ \A k \in 1..Len(calls) : calls[k].list = points
    /\ topic = "data" =>
          /\ Len(calls) <= 2
          /\ Len(calls) >= 1 => calls[1].list = points
          /\ Len(calls) = 2 =>
                /\ calls[2].list.id = ObjId(handled, "replicated", 0)
                /\ UntimedAll(calls[2].list.recs) = UntimedAll(lastSettingsPoints.recs)
    /\ topic \notin {"data", "settings"} => calls = <<>>

C17_Witness ==
    /\ topic = "data" /\ payload.valid
    /\ Len(calls) = 1
    /\ calls[1].list.recs = <<>>
    /\ ~calls[1].submitted

\* A point without the identity of its fields object.
Unowned(item) == Restrict(item, DOMAIN item \ {"fieldsId"})

\* C18: two builds from the same message give equal lists, time included,
\* that own their objects: no fields object of one list is a fields object
\* of the other or an object of the decoded message.
C18_RebuildIsEqualAndOwned ==
    again # NoList =>
        /\ [i \in 1..Len(again.recs) |-> Unowned(again.recs[i])]
              = [i \in 1..Len(points.recs) |-> Unowned(points.recs[i])]
        /\ again.id # points.id
        /\ FieldsIds(again.recs) \cap FieldsIds(points.recs) = {}
        /\ \A id \in FieldsIds(again.recs) \cup FieldsIds(points.recs) :
              id.obj \notin {"system", "channel", "pm"}

\* C19: a message is handled by the one callback its topic selects.  A
\* message of another topic is only logged: no sink call, no list built, the
\* cache as before, no exception.  A data message that decodes runs the data
\* callback only (cache as before), a settings message that decodes the
\* settings callback only (one sink call, its list in the cache).
C19_OneHandlerPerTopic ==
    [][(handled' = handled + 1) =>
          /\ topic' \in {"data", "settings", "other"}
          /\ topic' = "other" =>
                /\ calls' = <<>>
                /\ points' = NoList
                /\ lastSettingsPoints' = lastSettingsPoints
                /\ settingsBuilt' = settingsBuilt
                /\ ~escaped'
          /\ (topic' = "data" /\ payload'.valid) =>
                /\ lastSettingsPoints' = lastSettingsPoints
                /\ points'.id = ObjId(handled', "points", 0)
                /\ Len(calls') \in {1, 2}
          /\ (topic' = "settings" /\ payload'.valid) =>
                /\ lastSettingsPoints' = points'
                /\ points'.id = ObjId(handled', "points", 0)
                /\ Len(calls') = 1]_vars

C19_Witness ==
    /\ topic = "other" /\ payload.valid
    /\ handled >= 2
    /\ Len(lastSettingsPoints.recs) > 0
    /\ calls = <<>>
    /\ points = NoList

\* C20: the replicated settings points are never written on their own.  A
\* replicated list is submitted only as the second call of a data message,
\* after the non-empty list createDataPoints returned for that message was
\* submitted; a data message whose system.time cannot be read has no list
\* submitted, even with replication enabled and a non-empty cache.
C20_ReplicatedOnlyAfterData ==
    /\ \A k \in 1..Len(calls) :
          (calls[k].submitted /\ calls[k].list.id.obj = "replicated") =>
              /\ topic = "data"
              /\ k = 2
              /\ calls[1].list = points
              /\ points.id = ObjId(handled, "points", 0)
              /\ Len(points.recs) > 0
              /\ calls[1].submitted
    /\ (topic = "data" /\ (~payload.valid \/ SystemTime(payload.json).raised)) =>
          /\ Len(calls) <= 1
          /\ \A k \in 1..Len(calls) : ~calls[k].submitted

C20_Witness ==
    /\ topic = "data" /\ payload.valid
    /\ SystemTime(payload.json).raised
    /\ replicateSettings
    /\ Len(lastSettingsPoints.recs) > 0
    /\ Len(calls) = 1
    /\ ~calls[1].submitted

====
